---- MODULE Spec2Model ----
(***************************************************************************)
(* Model of the allocation, generation and duplicate-repair pipeline of    *)
(* src/app.py: allocate_counts, normalize_weight, generate_items (with the *)
(* generative calls as nondeterministic inputs), check_duplicates,         *)
(* regenerate_specific_item and the three repair handlers.                 *)
(*                                                                         *)
(* Floats: category and medium weights are modelled as integer-valued      *)
(* floats (1.0 = 1), for which total * w / wsum is an exact rational and   *)
(* Python's round() is round-half-to-even on it.                           *)
(* Strings that the code strips are sequences of one-character strings.    *)
(***************************************************************************)
EXTENDS Integers, Sequences, FiniteSets, TLC

VARIABLES
    (* the allocator on its own *)
    al_pc, al_total, al_keys, al_weights, al_out, al_dkey, al_dout,
    (* parameters of generate_items *)
    level, total, weights, thresh,
    (* locals of generate_items *)
    pc, alloc, ci, meds, med_alloc, mi, n_med, rounds, final, seen_q,
    (* observation of the current medium: its target and the number of   *)
    (* items appended by each of its rounds so far                        *)
    med_target, round_log,
    (* st.session_state["items"], st.session_state["duplicates_found"] *)
    items, duplicates_found,
    (* the repair handlers: how many have run, the pairs a running sweep  *)
    (* has still to visit, the indices it has regenerated, its class      *)
    repairs, sweep_queue, sweep_log, sweep_kind,
    (* one call of a pure function on its own: its position, the function *)
    (* with its arguments, and what it returned                           *)
    fn_pc, fn_call, fn_out

al_vars == <<al_pc, al_total, al_keys, al_weights, al_out, al_dkey, al_dout>>

in_vars == <<level, total, weights, thresh>>

loc_vars == <<alloc, ci, meds, med_alloc, mi, n_med, rounds, final, seen_q,
              med_target, round_log>>

ss_vars == <<items, duplicates_found>>

rep_vars == <<repairs, sweep_queue, sweep_log, sweep_kind>>

fn_vars == <<fn_pc, fn_call, fn_out>>

vars == <<al_vars, fn_vars, in_vars, pc, loc_vars, ss_vars, rep_vars>>

---------------------------------------------------------------------------
(* Bounds of the model *)

MaxKeys == 4
MaxWeight == 4
MaxTotal == 10
(* generate_items: the requested total, the weight of a category, and the *)
(* number of candidates in one response of the model                      *)
MaxCount == 4
MaxCatWeight == 2
MaxGot == 2

KeyNames == <<"A", "B", "C", "D", "E", "F", "G", "H">>

---------------------------------------------------------------------------
(* Helpers *)

Range(s) == {s[i] : i \in 1..Len(s)}

RemoveAt(s, i) == SubSeq(s, 1, i - 1) \o SubSeq(s, i + 1, Len(s))

RECURSIVE SumOver(_, _)
SumOver(f, S) ==
    IF S = {} THEN 0
    ELSE LET k == CHOOSE x \in S : TRUE
         IN  f[k] + SumOver(f, S \ {k})

(* sum(target.values()) *)
SumValues(f) == SumOver(f, DOMAIN f)

---------------------------------------------------------------------------
(* allocate_counts *)

(* weights.get(k, 1.0) *)
WeightOf(wts, k) == IF k \in DOMAIN wts THEN wts[k] ELSE 1

(* Python 3 round(num / den) for den > 0: nearest integer, a tie goes to *)
(* the even neighbour.                                                    *)
RoundHalfUp(num, den) ==
    LET q == num \div den
        r == num % den
    IN  IF 2 * r >= den THEN q + 1 ELSE q

PyRound(num, den) ==
    LET q == num \div den
        r == num % den
    IN  IF 2 * r < den THEN q
        ELSE IF 2 * r > den THEN q + 1
        ELSE IF q % 2 = 0 THEN q ELSE q + 1

(* sorted(keys, key=weight, reverse=True): descending and stable, so keys *)
(* of equal weight keep their input order.                                *)
RECURSIVE SortedLastTieFirst(_, _)
SortedLastTieFirst(keys, wts) ==
    IF keys = <<>> THEN <<>>
    ELSE LET i == CHOOSE i \in 1..Len(keys) :
                     /\ \A j \in 1..Len(keys) :
                            WeightOf(wts, keys[j]) <= WeightOf(wts, keys[i])
                     /\ \A j \in (i + 1)..Len(keys) :
                            WeightOf(wts, keys[j]) < WeightOf(wts, keys[i])
         IN  <<keys[i]>> \o SortedLastTieFirst(RemoveAt(keys, i), wts)

RECURSIVE SortedStableDesc(_, _)
SortedStableDesc(keys, wts) ==
    IF keys = <<>> THEN <<>>
    ELSE LET i == CHOOSE i \in 1..Len(keys) :
                     /\ \A j \in 1..Len(keys) :
                            WeightOf(wts, keys[j]) <= WeightOf(wts, keys[i])
                     /\ \A j \in 1..(i - 1) :
                            WeightOf(wts, keys[j]) < WeightOf(wts, keys[i])
         IN  <<keys[i]>> \o SortedStableDesc(RemoveAt(keys, i), wts)

sorted_keys(keys, wts) == SortedStableDesc(keys, wts)

(* the branch total < n: the first `total` keys of the ranking get 1 *)
AllocFew(tot, keys, wts) ==
    LET sk == sorted_keys(keys, wts)
        chosen == {sk[i] : i \in 1..tot}
    IN  [k \in Range(keys) |-> IF k \in chosen THEN 1 ELSE 0]

(* the iteration cap of the rebalancing loop *)
LoopCap == 10000

(* while diff != 0 and i < 10000: ... ; returns the final target *)
RECURSIVE Rebalance(_, _, _, _, _)
Rebalance(target, diff, i, sk, n) ==
    IF diff = 0 \/ i >= LoopCap THEN target
    ELSE LET k == sk[(i % n) + 1]
         IN  IF diff > 0
             THEN Rebalance([target EXCEPT ![k] = @ + 1], diff - 1, i + 1, sk, n)
             ELSE IF target[k] > 1
                  THEN Rebalance([target EXCEPT ![k] = @ - 1], diff + 1, i + 1, sk, n)
                  ELSE Rebalance(target, diff, i + 1, sk, n)

(* the rounded share of one key *)
RoundShareHalfUp(tot, w, wsum) == RoundHalfUp(tot * w, wsum)

RoundShare(tot, w, wsum) == PyRound(tot * w, wsum)

(* if target[k] < 1: target[k] = 1 *)
NoFloor(x) == x

FloorAtOne(x) == IF x < 1 THEN 1 ELSE x

(* the branch total >= n, without its remainder correction *)
AllocManyUncorrected(tot, keys, wts) ==
    LET n    == Len(keys)
        ws   == [i \in 1..n |-> WeightOf(wts, keys[i])]
        wsum == IF SumValues(ws) <= 0 THEN n ELSE SumValues(ws)
    IN  [k \in Range(keys) |->
            FloorAtOne(RoundShare(tot, WeightOf(wts, k), wsum))]

(* the branch total >= n *)
AllocMany(tot, keys, wts) ==
    LET n      == Len(keys)
        wsum0  == LET ws == [i \in 1..n |-> WeightOf(wts, keys[i])]
                  IN  SumValues(ws)
        (* with wsum <= 0 the code divides by float(n) instead *)
        wsum   == IF wsum0 <= 0 THEN n ELSE wsum0
        raw    == [k \in Range(keys) |-> RoundShare(tot, WeightOf(wts, k), wsum)]
        target == [k \in Range(keys) |-> FloorAtOne(raw[k])]
        diff   == tot - SumValues(target)
        sk     == sorted_keys(keys, wts)
        t2     == Rebalance(target, diff, 0, sk, n)
        diff2  == tot - SumValues(t2)
    IN  IF diff2 # 0 THEN [t2 EXCEPT ![sk[1]] = @ + diff2] ELSE t2

allocate_counts(tot, keys, wts) ==
    IF tot <= 0 \/ Len(keys) = 0 THEN [k \in Range(keys) |-> 0]
    ELSE IF tot < Len(keys) THEN AllocFew(tot, keys, wts)
    ELSE AllocMany(tot, keys, wts)

---------------------------------------------------------------------------
(* Values of the model's JSON responses.  A string the code strips is a   *)
(* sequence of characters; a weight is an integer, a non-numeric text or  *)
(* missing.                                                               *)

JInt(v) == [t |-> "int", v |-> v]

JText == [t |-> "text", v |-> 0]

JMissing == [t |-> "none", v |-> 0]

IsSpace(c) == c = " "

RECURSIVE LStrip(_)
LStrip(s) == IF s # <<>> /\ IsSpace(Head(s)) THEN LStrip(Tail(s)) ELSE s

RECURSIVE RStrip(_)
RStrip(s) ==
    IF s # <<>> /\ IsSpace(s[Len(s)]) THEN RStrip(SubSeq(s, 1, Len(s) - 1)) ELSE s

NoStrip(s) == s

(* str.strip() *)
Strip(s) == RStrip(LStrip(s))

ROMAN_ORDER == <<"I", "II", "III", "IV", "V", "VI", "VII", "VIII", "IX", "X">>

(* the sets of categories a user may have selected (the keys of weights) *)
CategorySelections == {{"I"}, {"I", "II"}}

Levels == {"Lv1", "Lv3"}

(* similarity threshold, in hundredths *)
Thresholds == {50}

(* mname = names.get(mk, mk) *)
DisplayName(mk) == mk

(* -- responses of generate_mediums ------------------------------------ *)
(* wf: the entry is a JSON object                                         *)
Medium(name, w) == [wf |-> TRUE, name |-> name, intent |-> <<"i">>, weight |-> w]

NotAnObject == [wf |-> FALSE, name |-> <<>>, intent |-> <<>>, weight |-> JMissing]

(* meds = [{"name": "基本", "intent": "基本", "weight": 1.0}] *)
SyntheticMeds == << [wf |-> TRUE, name |-> <<"K">>, intent |-> <<"K">>, weight |-> JInt(1)] >>

(* what cached_generate_mediums may return: [] for a failed call, a     *)
(* missing key or a non-list, else the list the model sent               *)
MediumResponses ==
    { <<>>,
      << Medium(<<"A">>, JInt(1)) >>,
      << Medium(<<"A">>, JInt(1)), Medium(<<"B">>, JInt(2)) >>,
      << Medium(<<"A">>, JMissing), Medium(<<"A">>, JInt(1)) >>,
      << Medium(<<"A", " ">>, JInt(1)) >>,
      << Medium(<<>>, JText) >>,
      << Medium(<<"A">>, JText) >>,
      << NotAnObject >> }

(* -- responses of call_model_for_questions ---------------------------- *)
Candidate(q, w) ==
    [wf |-> TRUE, full_sentence |-> q, purpose |-> "p", action |-> "a",
     result |-> "r", weight |-> w]

BadCandidate ==
    [wf |-> FALSE, full_sentence |-> <<>>, purpose |-> "", action |-> "",
     result |-> "", weight |-> JMissing]

CandidatePool ==
    { Candidate(<<"a", "b", " ">>, JInt(999)),
      Candidate(<<"a", "c">>, JText),
      Candidate(<<"b">>, JInt(0)),
      Candidate(<<" ">>, JMissing),
      BadCandidate }

(* [] for a failed call, a missing key or a non-list, else the list sent, *)
(* of any length up to MaxGot whatever count was asked for                *)
CandidateResponses ==
    UNION { [1..n -> CandidatePool] : n \in 0..MaxGot }

---------------------------------------------------------------------------
(* normalize_weight *)

default_weight_by_level(lv) ==
    IF lv = "Lv1" THEN 1 ELSE IF lv = "Lv2" THEN 2 ELSE 3

NoClamp(wi) == wi

Clamp(wi) == IF wi < 1 THEN 1 ELSE IF wi > 5 THEN 5 ELSE wi

normalize_weight(w, lv) ==
    Clamp(IF w.t = "int" THEN w.v ELSE default_weight_by_level(lv))

---------------------------------------------------------------------------
(* check_duplicates *)

(* difflib.SequenceMatcher.find_longest_match without junk: the longest   *)
(* block a[i..i+k) = b[j..j+k) inside the windows, the one starting       *)
(* earliest in a and then earliest in b.  Indices are 0-based, windows    *)
(* half-open.                                                             *)
BlockAt(a, b, i, j, k) == \A d \in 0..(k - 1) : a[i + d + 1] = b[j + d + 1]

find_longest_match(a, b, alo, ahi, blo, bhi) ==
    LET Blocks == { <<i, j, k>> \in (alo..ahi) \X (blo..bhi) \X (1..(ahi - alo)) :
                       i + k <= ahi /\ j + k <= bhi /\ BlockAt(a, b, i, j, k) }
    IN  IF Blocks = {} THEN <<alo, blo, 0>>
        ELSE CHOOSE m \in Blocks :
                 \A o \in Blocks :
                     \/ m[3] > o[3]
                     \/ (m[3] = o[3] /\ m[1] < o[1])
                     \/ (m[3] = o[3] /\ m[1] = o[1] /\ m[2] <= o[2])

(* the total size of get_matching_blocks() *)
RECURSIVE Matches(_, _, _, _, _, _)
Matches(a, b, alo, ahi, blo, bhi) ==
    IF alo >= ahi \/ blo >= bhi THEN 0
    ELSE LET m == find_longest_match(a, b, alo, ahi, blo, bhi)
         IN  IF m[3] = 0 THEN 0
             ELSE m[3] + Matches(a, b, alo, m[1], blo, m[2])
                       + Matches(a, b, m[1] + m[3], ahi, m[2] + m[3], bhi)

(* ratio() = 2.0 * M / T as the pair <<2 M, T>> *)
Ratio(s1, s2) == <<2 * Matches(s1, s2, 0, Len(s1), 0, Len(s2)), Len(s1) + Len(s2)>>

StrictlyAbove(score, th) == score[1] * 100 > th * score[2]

(* score >= threshold, threshold in hundredths *)
AtLeast(score, th) == score[1] * 100 >= th * score[2]

AlwaysGroup(k1, k2) == "group"

(* dup_type = "group" if k1 == k2 else "global" *)
DupType(k1, k2) == IF k1 = k2 THEN "group" ELSE "global"

(* the pairs in the order of the two nested loops; i and j are the        *)
(* 0-based indices the code stores                                        *)
PairsInOrder(n) ==
    LET RECURSIVE Row(_, _)
        Row(i, j) == IF j >= n THEN <<>> ELSE << <<i, j>> >> \o Row(i, j + 1)
        RECURSIVE Rows(_)
        Rows(i) == IF i >= n THEN <<>> ELSE Row(i, i + 1) \o Rows(i + 1)
    IN  Rows(0)

IsDuplicatePair(its, i, j, th) ==
    LET s1 == Strip(its[i + 1].full_sentence)
        s2 == Strip(its[j + 1].full_sentence)
    IN  /\ s1 # <<>>
        /\ s2 # <<>>
        /\ AtLeast(Ratio(s1, s2), th)

check_duplicates(its, th) ==
    LET ps == PairsInOrder(Len(its))
        RECURSIVE Scan(_)
        Scan(k) ==
            IF k > Len(ps) THEN <<>>
            ELSE LET i == ps[k][1]
                     j == ps[k][2]
                 IN  (IF IsDuplicatePair(its, i, j, th)
                      THEN << [i |-> i, j |-> j,
                               score |-> Ratio(Strip(its[i + 1].full_sentence),
                                               Strip(its[j + 1].full_sentence)),
                               dup_type |-> DupType(its[i + 1].category_large_key,
                                                    its[j + 1].category_large_key)] >>
                      ELSE <<>>) \o Scan(k + 1)
    IN  Scan(1)
---------------------------------------------------------------------------
(* generate_items *)

(* sorted([k for k in weights.keys() if k in ROMAN_ORDER], key=index) *)
major_keys(w) ==
    LET RECURSIVE Pick(_)
        Pick(i) ==
            IF i > Len(ROMAN_ORDER) THEN <<>>
            ELSE (IF ROMAN_ORDER[i] \in DOMAIN w THEN <<ROMAN_ORDER[i]>> ELSE <<>>)
                 \o Pick(i + 1)
    IN  Pick(1)

(* need = int(alloc.get(mk, 0)) *)
Need(al, mk) == IF mk \in DOMAIN al THEN al[mk] ELSE 0

(* [m.get("name", "") for m in meds if m.get("name")] *)
MediumNames(ms) ==
    LET RECURSIVE Names(_)
        Names(i) ==
            IF i > Len(ms) THEN <<>>
            ELSE (IF ms[i].name # <<>> THEN <<ms[i].name>> ELSE <<>>) \o Names(i + 1)
    IN  Names(1)

(* float(m.get("weight", 1.0)): 1.0 when the key is missing *)
MediumWeight(m) == IF m.weight.t = "int" THEN m.weight.v ELSE 1

(* {m.get("name", ""): float(m.get("weight", 1.0)) for m in meds if m.get("name")} : *)
(* a later entry of the same name overwrites an earlier one                       *)
MediumWeights(ms) ==
    [nm \in Range(MediumNames(ms)) |->
        LET last == CHOOSE i \in 1..Len(ms) :
                        /\ ms[i].name = nm
                        /\ \A j \in (i + 1)..Len(ms) : ms[j].name # nm
        IN  MediumWeight(ms[last])]

(* m.get(...) on an entry that is no object, or float() of a non-numeric *)
(* weight, raises inside generate_items                                   *)
MediumsRaise(ms) ==
    \E i \in 1..Len(ms) :
        \/ ~ms[i].wf
        \/ (ms[i].name # <<>> /\ ms[i].weight.t = "text")

(* the item appended for an accepted candidate *)
NewItem(mk, med_name, q, it, lv) ==
    [category_large_key  |-> mk,
     category_large_name |-> DisplayName(mk),
     category_medium     |-> med_name,
     full_sentence       |-> q,
     purpose             |-> it.purpose,
     action              |-> it.action,
     result              |-> it.result,
     weight              |-> JInt(normalize_weight(it.weight, lv))]

(* q = (it.get("full_sentence") or "").strip() *)
CandidateSentence(it) == Strip(it.full_sentence)

(* if not q or q in seen_q: continue *)
RejectsOnlyEmpty(q, seen) == q = <<>>

Rejects(q, seen) == q = <<>> \/ q \in seen

(* for it in got: ... ; the state is <<final, seen_q, added, raised>>.    *)
(* A candidate that is no object raises at it.get.                        *)
RECURSIVE Accept(_, _, _, _, _, _)
Accept(got, k, st, mk, med_name, lv) ==
    IF k > Len(got) \/ st.raised THEN st
    ELSE LET it == got[k]
         IN  IF ~it.wf THEN [st EXCEPT !.raised = TRUE]
             ELSE LET q == CandidateSentence(it)
                  IN  IF Rejects(q, st.seen) THEN Accept(got, k + 1, st, mk, med_name, lv)
                      ELSE Accept(got, k + 1,
                                  [final  |-> Append(st.final, NewItem(mk, med_name, q, it, lv)),
                                   seen   |-> st.seen \cup {q},
                                   added  |-> st.added + 1,
                                   raised |-> FALSE],
                                  mk, med_name, lv)

(* the round cap of the per-medium loop *)
MaxRounds == 3

RoundsNoCap(r) == TRUE

(* while n_med > 0 and rounds < 3 *)
RoundsLeft(r) == r < MaxRounds

StopsNever(added) == FALSE

(* if added == 0: break *)
StopsEarly(added) == added = 0

GenInit ==
    /\ pc = "start"
    /\ level \in Levels
    /\ total \in 1..MaxCount
    /\ \E sel \in CategorySelections : weights \in [sel -> 1..MaxCatWeight]
    /\ thresh \in Thresholds
    /\ alloc = <<>>
    /\ ci = 0
    /\ meds = <<>>
    /\ med_alloc = <<>>
    /\ mi = 0
    /\ n_med = 0
    /\ rounds = 0
    /\ final = <<>>
    /\ seen_q = {}
    /\ med_target = 0
    /\ round_log = <<>>
    /\ items = <<>>
    /\ duplicates_found = <<>>
    /\ repairs = 0
    /\ sweep_queue = <<>>
    /\ sweep_log = <<>>
    /\ sweep_kind = ""

(* lines 608-615: the allocation over the categories *)
StartGeneration ==
    /\ pc = "start"
    /\ alloc' = allocate_counts(total, major_keys(weights), weights)
    /\ ci' = 1
    /\ pc' = "category"
    /\ UNCHANGED <<meds, med_alloc, mi, n_med, rounds, final, seen_q,
                   med_target, round_log>>
    /\ UNCHANGED <<al_vars, fn_vars, in_vars, ss_vars, rep_vars>>

(* for mk in major_keys: if need <= 0: continue *)
SkipCategory ==
    /\ pc = "category"
    /\ ci <= Len(major_keys(weights))
    /\ Need(alloc, major_keys(weights)[ci]) <= 0
    /\ ci' = ci + 1
    /\ UNCHANGED <<pc, alloc, meds, med_alloc, mi, n_med, rounds, final, seen_q,
                   med_target, round_log>>
    /\ UNCHANGED <<al_vars, fn_vars, in_vars, ss_vars, rep_vars>>

(* lines 630-657: the mediums of the category and their allocation *)
PlanMediums ==
    /\ pc = "category"
    /\ ci <= Len(major_keys(weights))
    /\ Need(alloc, major_keys(weights)[ci]) > 0
    /\ \E resp \in MediumResponses :
          LET ms == IF resp = <<>> THEN SyntheticMeds ELSE resp
          IN  /\ meds' = ms
              /\ IF MediumsRaise(ms)
                 THEN /\ pc' = "raised"
                      /\ UNCHANGED <<med_alloc, mi>>
                 ELSE /\ med_alloc' = allocate_counts(
                                          Need(alloc, major_keys(weights)[ci]),
                                          MediumNames(ms), MediumWeights(ms))
                      /\ mi' = 1
                      /\ pc' = "medium"
    /\ UNCHANGED <<alloc, ci, n_med, rounds, final, seen_q, med_target, round_log>>
    /\ UNCHANGED <<al_vars, fn_vars, in_vars, ss_vars, rep_vars>>

(* n_med = int(med_alloc.get(med_name, 0)) *)
MediumCount(m) ==
    IF Strip(m.name) \in DOMAIN med_alloc THEN med_alloc[Strip(m.name)] ELSE 0

(* for m in meds: if not med_name or n_med <= 0: continue *)
SkipMedium ==
    /\ pc = "medium"
    /\ mi <= Len(meds)
    /\ (Strip(meds[mi].name) = <<>> \/ MediumCount(meds[mi]) <= 0)
    /\ mi' = mi + 1
    /\ UNCHANGED <<pc, alloc, ci, meds, med_alloc, n_med, rounds, final, seen_q,
                   med_target, round_log>>
    /\ UNCHANGED <<al_vars, fn_vars, in_vars, ss_vars, rep_vars>>

(* lines 662-667: a medium with a positive count enters its loop *)
EnterMedium ==
    /\ pc = "medium"
    /\ mi <= Len(meds)
    /\ Strip(meds[mi].name) # <<>>
    /\ MediumCount(meds[mi]) > 0
    /\ n_med' = MediumCount(meds[mi])
    /\ med_target' = MediumCount(meds[mi])
    /\ rounds' = 0
    /\ round_log' = <<>>
    /\ pc' = "round"
    /\ UNCHANGED <<alloc, ci, meds, med_alloc, mi, final, seen_q>>
    /\ UNCHANGED <<al_vars, fn_vars, in_vars, ss_vars, rep_vars>>

(* the for loop over meds ran out: lines 720-721, then the next category *)
EndMediums ==
    /\ pc = "medium"
    /\ mi > Len(meds)
    /\ IF Len(final) >= total
       THEN pc' = "finish" /\ UNCHANGED ci
       ELSE pc' = "category" /\ ci' = ci + 1
    /\ UNCHANGED <<alloc, meds, med_alloc, mi, n_med, rounds, final, seen_q,
                   med_target, round_log>>
    /\ UNCHANGED <<al_vars, fn_vars, in_vars, ss_vars, rep_vars>>

(* lines 667-718: one round of the medium's loop: the generative call,    *)
(* the filtering of its candidates, and the loop's exit tests             *)
Round ==
    /\ pc = "round"
    /\ \E got \in CandidateResponses :
          LET mk  == major_keys(weights)[ci]
              st  == Accept(got, 1,
                            [final |-> final, seen |-> seen_q, added |-> 0,
                             raised |-> FALSE],
                            mk, Strip(meds[mi].name), level)
              n2  == n_med - st.added
              again == ~StopsEarly(st.added) /\ n2 > 0 /\ RoundsLeft(rounds + 1)
          IN  /\ rounds' = rounds + 1
              /\ final' = st.final
              /\ seen_q' = st.seen
              /\ IF st.raised
                 THEN /\ pc' = "raised"
                      /\ UNCHANGED <<n_med, round_log, mi>>
                 ELSE /\ n_med' = n2
                      /\ round_log' = Append(round_log, st.added)
                      /\ IF again
                         THEN pc' = "round" /\ UNCHANGED mi
                         ELSE IF Len(st.final) >= total
                              THEN pc' = "finish" /\ UNCHANGED mi
                              ELSE pc' = "medium" /\ mi' = mi + 1
    /\ UNCHANGED <<alloc, ci, meds, med_alloc, med_target>>
    /\ UNCHANGED <<al_vars, fn_vars, in_vars, ss_vars, rep_vars>>

(* generate_items has returned: its locals are gone *)
ReturnedLocals ==
    /\ alloc' = <<>>
    /\ ci' = 0
    /\ meds' = <<>>
    /\ med_alloc' = <<>>
    /\ mi' = 0
    /\ n_med' = 0
    /\ rounds' = 0
    /\ final' = <<>>
    /\ seen_q' = {}
    /\ med_target' = 0
    /\ round_log' = <<>>

(* final[:total] *)
Truncate(s, n) == SubSeq(s, 1, IF Len(s) < n THEN Len(s) ELSE n)

(* lines 723-731 and 913: the detector runs on final, the caller stores *)
(* the returned final[:total]                                           *)
Finish ==
    /\ \/ pc = "finish"
       \/ (pc = "category" /\ ci > Len(major_keys(weights)))
    /\ duplicates_found' = check_duplicates(final, thresh)
    /\ items' = Truncate(final, total)
    /\ pc' = "done"
    /\ ReturnedLocals
    /\ UNCHANGED <<al_vars, fn_vars, in_vars, rep_vars>>

---------------------------------------------------------------------------
(* regenerate_specific_item and the repair handlers *)

ItemFields == {"category_large_key", "category_large_name", "category_medium",
               "full_sentence", "purpose", "action", "result", "weight"}

(* a response of the regeneration call: ok is FALSE when the call or the  *)
(* parsing fails; otherwise the JSON object holds the keys in `has` with  *)
(* the values of `val`                                                    *)
ResponseBase ==
    [category_large_key |-> "II", category_large_name |-> "II",
     category_medium |-> <<"Z">>, full_sentence |-> <<"a", "b">>,
     purpose |-> "p2", action |-> "a2", result |-> "r2", weight |-> JInt(3)]

Response(ok, has, val) == [ok |-> ok, has |-> has, val |-> val]

RegenResponses ==
    { Response(FALSE, {}, ResponseBase),
      Response(TRUE, {}, ResponseBase),
      Response(TRUE, {"purpose", "action", "result", "full_sentence", "weight"},
               [ResponseBase EXCEPT !.full_sentence = <<"b", "c">>]),
      Response(TRUE, {"full_sentence", "weight", "category_large_key", "category_medium"},
               [ResponseBase EXCEPT !.weight = JInt(999)]),
      Response(TRUE, {"full_sentence", "weight"},
               [ResponseBase EXCEPT !.full_sentence = <<" ">>, !.weight = JText]) }

(* new_item = item.copy(); new_item.update(json.loads(...)) *)
Overlay(item, resp) ==
    [f \in ItemFields |-> IF f \in resp.has THEN resp.val[f] ELSE item[f]]

RegenerateUnguarded(item, resp) == Overlay(item, resp)

(* the copy with the response's keys on success; the item itself when    *)
(* there is no client or the call, the parsing or the update raises      *)
regenerate_specific_item(item, resp) ==
    IF resp.ok THEN Overlay(item, resp) ELSE item

(* group_dups / global_dups: the stored pairs of one class, in order *)
DupsOfType(dups, ty) ==
    LET RECURSIVE Sel(_)
        Sel(k) ==
            IF k > Len(dups) THEN <<>>
            ELSE (IF dups[k].dup_type = ty THEN <<dups[k]>> ELSE <<>>) \o Sel(k + 1)
    IN  Sel(1)

(* the number of repair handlers a behaviour runs *)
MaxRepairs == 1

FirstIndex(d) == d.i

(* idx = d[2]: the second index of the pair *)
TargetIndex(d) == d.j

(* One iteration of `for d in group_dups` (or global_dups) on the queue q *)
(* of pairs still to visit: items[idx] = regenerate_specific_item(...),   *)
(* and after the last pair the detector is re-run.  An idx outside the    *)
(* list raises IndexError: the handler stops with the list as it is and   *)
(* the stored report unchanged.                                           *)
SweepVisit(q, log, resp) ==
    LET idx == TargetIndex(Head(q))
    IN  IF idx >= Len(items)
        THEN /\ pc' = "done"
             /\ sweep_queue' = <<>>
             /\ sweep_log' = log
             /\ UNCHANGED <<items, duplicates_found>>
        ELSE /\ items' = [items EXCEPT ![idx + 1] = regenerate_specific_item(@, resp)]
             /\ sweep_log' = Append(log, idx)
             /\ sweep_queue' = Tail(q)
             /\ IF Tail(q) = <<>>
                THEN /\ pc' = "done"
                     /\ duplicates_found' = check_duplicates(items', thresh)
                ELSE /\ pc' = "sweep"
                     /\ UNCHANGED duplicates_found

(* the results panel is rendered only for a non-empty item list (line 917) *)
PanelShown == pc = "done" /\ items # <<>> /\ repairs < MaxRepairs

(* button fix_grp, lines 939-963: shown when group_dups is not empty *)
FixGrp ==
    /\ PanelShown
    /\ DupsOfType(duplicates_found, "group") # <<>>
    /\ repairs' = repairs + 1
    /\ sweep_kind' = "group"
    /\ \E resp \in RegenResponses :
          SweepVisit(DupsOfType(duplicates_found, "group"), <<>>, resp)
    /\ UNCHANGED <<al_vars, fn_vars, in_vars, loc_vars>>

(* button fix_glb, lines 975-999: shown when global_dups is not empty *)
FixGlb ==
    /\ PanelShown
    /\ DupsOfType(duplicates_found, "global") # <<>>
    /\ repairs' = repairs + 1
    /\ sweep_kind' = "global"
    /\ \E resp \in RegenResponses :
          SweepVisit(DupsOfType(duplicates_found, "global"), <<>>, resp)
    /\ UNCHANGED <<al_vars, fn_vars, in_vars, loc_vars>>

(* the next iteration of a sweep's for loop *)
SweepStep ==
    /\ pc = "sweep"
    /\ \E resp \in RegenResponses : SweepVisit(sweep_queue, sweep_log, resp)
    /\ UNCHANGED <<repairs, sweep_kind>>
    /\ UNCHANGED <<al_vars, fn_vars, in_vars, loc_vars>>

(* button fix_ind, lines 1008-1032: target_no in 1..len(items) *)
FixInd ==
    /\ PanelShown
    /\ repairs' = repairs + 1
    /\ \E target_no \in 1..Len(items), resp \in RegenResponses :
          /\ items' = [items EXCEPT ![target_no] = regenerate_specific_item(@, resp)]
          /\ duplicates_found' = check_duplicates(items', thresh)
    /\ UNCHANGED <<pc, sweep_queue, sweep_log, sweep_kind>>
    /\ UNCHANGED <<al_vars, fn_vars, in_vars, loc_vars>>

---------------------------------------------------------------------------
(* Specification of the pipeline: one generation, then repairs *)

AllocIdle ==
    /\ al_pc = "idle"
    /\ al_total = 0
    /\ al_keys = <<>>
    /\ al_weights = <<>>
    /\ al_out = <<>>
    /\ al_dkey = ""
    /\ al_dout = <<>>

FunIdle ==
    /\ fn_pc = "idle"
    /\ fn_call = <<>>
    /\ fn_out = <<>>

Init == GenInit /\ AllocIdle /\ FunIdle

Next ==
    \/ StartGeneration
    \/ SkipCategory
    \/ PlanMediums
    \/ SkipMedium
    \/ EnterMedium
    \/ EndMediums
    \/ Round
    \/ Finish
    \/ FixGrp
    \/ FixGlb
    \/ SweepStep
    \/ FixInd

Spec == Init /\ [][Next]_vars
---------------------------------------------------------------------------
(* Specification of the allocator alone: any total, any non-empty list of *)
(* distinct keys, any positive weights; then the allocation, and the      *)
(* allocation again with one key's weight doubled.                        *)

PipelineIdle ==
    /\ pc = "idle"
    /\ level = "Lv3"
    /\ total = 0
    /\ weights = <<>>
    /\ thresh = 75
    /\ alloc = <<>>
    /\ ci = 0
    /\ meds = <<>>
    /\ med_alloc = <<>>
    /\ mi = 0
    /\ n_med = 0
    /\ rounds = 0
    /\ final = <<>>
    /\ seen_q = {}
    /\ med_target = 0
    /\ round_log = <<>>
    /\ items = <<>>
    /\ duplicates_found = <<>>
    /\ repairs = 0
    /\ sweep_queue = <<>>
    /\ sweep_log = <<>>
    /\ sweep_kind = ""

AllocInit ==
    /\ al_pc = "input"
    /\ al_total \in 0..MaxTotal
    /\ \E n \in 1..MaxKeys :
          /\ al_keys = SubSeq(KeyNames, 1, n)
          /\ al_weights \in [Range(SubSeq(KeyNames, 1, n)) -> 1..MaxWeight]
    /\ al_out = <<>>
    /\ al_dkey = ""
    /\ al_dout = <<>>
    /\ PipelineIdle
    /\ FunIdle

Allocate ==
    /\ al_pc = "input"
    /\ al_out' = allocate_counts(al_total, al_keys, al_weights)
    /\ al_pc' = "allocated"
    /\ UNCHANGED <<al_total, al_keys, al_weights, al_dkey, al_dout>>
    /\ UNCHANGED <<fn_vars, in_vars, pc, loc_vars, ss_vars, rep_vars>>

AllocateDoubled ==
    /\ al_pc = "allocated"
    /\ \E k \in Range(al_keys) :
          /\ al_dkey' = k
          /\ al_dout' = allocate_counts(al_total, al_keys,
                                        [al_weights EXCEPT ![k] = 2 * @])
    /\ al_pc' = "doubled"
    /\ UNCHANGED <<al_total, al_keys, al_weights, al_out>>
    /\ UNCHANGED <<fn_vars, in_vars, pc, loc_vars, ss_vars, rep_vars>>

AllocNext == Allocate \/ AllocateDoubled

SpecAlloc == AllocInit /\ [][AllocNext]_vars

---------------------------------------------------------------------------
(* Specification of the pure functions alone: one call of                 *)
(* normalize_weight, regenerate_specific_item or check_duplicates on      *)
(* arguments drawn from a bounded set.                                    *)

(* the largest magnitude of a raw integer weight, and the longest item    *)
(* list given to the detector                                             *)
MaxRawWeight == 7
MaxItems == 3

(* USER_DEFINED_LEVELS: Lv1, Lv2, Lv3 and one of the levels above *)
AllLevels == {"Lv1", "Lv2", "Lv3", "Lv4"}

(* w: an integer, a non-numeric text, or None *)
RawWeights ==
    {JInt(v) : v \in (-MaxRawWeight)..MaxRawWeight} \cup {JInt(999), JText, JMissing}

NormalizeCalls ==
    {[name |-> "normalize_weight", w |-> w, level |-> lv] :
        w \in RawWeights, lv \in AllLevels}

(* two items as generate_items stores them *)
StoredItems ==
    { NewItem("I", <<"K">>, <<"a", "b">>, Candidate(<<"a", "b">>, JInt(2)), "Lv3"),
      NewItem("II", <<"A">>, <<"c", "d">>, Candidate(<<"c", "d">>, JText), "Lv1") }

(* any outcome of the call: failed or not, and any set of keys in the     *)
(* text the model sent                                                    *)
AnyResponses ==
    {Response(ok, has, ResponseBase) : ok \in BOOLEAN, has \in SUBSET ItemFields}

RegenCalls ==
    {[name |-> "regenerate_specific_item", item |-> it, resp |-> r] :
        it \in StoredItems, r \in AnyResponses}

DetectSentences ==
    { <<"a", "b">>, <<"a", "b", " ">>, <<"a", "c">>, <<"c", "d">>, <<" ">> }

DetectItems ==
    {NewItem(mk, <<"K">>, q, Candidate(q, JInt(3)), "Lv3") :
        mk \in {"I", "II"}, q \in DetectSentences}

(* thresholds in hundredths: just above 0, the slider's lowest value, 1.0 *)
DetectThresholds == {1, 50, 100}

DetectCalls ==
    {[name |-> "check_duplicates", items |-> its, threshold |-> th] :
        its \in UNION {[1..n -> DetectItems] : n \in 0..MaxItems},
        th \in DetectThresholds}

FunInit ==
    /\ fn_pc = "input"
    /\ fn_call \in NormalizeCalls \cup RegenCalls \cup DetectCalls
    /\ fn_out = <<>>
    /\ AllocIdle
    /\ PipelineIdle

Normalize ==
    /\ fn_pc = "input"
    /\ fn_call.name = "normalize_weight"
    /\ fn_out' = normalize_weight(fn_call.w, fn_call.level)
    /\ fn_pc' = "output"
    /\ UNCHANGED fn_call
    /\ UNCHANGED <<al_vars, in_vars, pc, loc_vars, ss_vars, rep_vars>>

Regenerate ==
    /\ fn_pc = "input"
    /\ fn_call.name = "regenerate_specific_item"
    /\ fn_out' = regenerate_specific_item(fn_call.item, fn_call.resp)
    /\ fn_pc' = "output"
    /\ UNCHANGED fn_call
    /\ UNCHANGED <<al_vars, in_vars, pc, loc_vars, ss_vars, rep_vars>>

Detect ==
    /\ fn_pc = "input"
    /\ fn_call.name = "check_duplicates"
    /\ fn_out' = check_duplicates(fn_call.items, fn_call.threshold)
    /\ fn_pc' = "output"
    /\ UNCHANGED fn_call
    /\ UNCHANGED <<al_vars, in_vars, pc, loc_vars, ss_vars, rep_vars>>

FunNext == Normalize \/ Regenerate \/ Detect

SpecFun == FunInit /\ [][FunNext]_vars

---------------------------------------------------------------------------
(* Claims about allocate_counts, checked under SpecAlloc *)

IsAllocation(out, tot, keys) ==
    /\ DOMAIN out = Range(keys)
    /\ \A k \in Range(keys) : out[k] \in Nat
    /\ SumValues(out) = tot

IsC2Input ==
    /\ al_pc = "allocated"
    /\ al_total = 10
    /\ al_keys = <<"A", "B">>
    /\ al_weights = [k \in {"A", "B"} |-> IF k = "A" THEN 1 ELSE 3]

(* C2 as stated: allocate_counts(10, [A, B], {A: 1, B: 3}) returns A:3, B:7. *)
C2_Original ==
    IsC2Input => al_out = [k \in {"A", "B"} |-> IF k = "A" THEN 3 ELSE 7]

(* C2 amended: allocate_counts(10, [A, B], {A: 1, B: 3}) returns A:2, B:8: *)
(* the shares 2.5 and 7.5 round half-to-even to 2 and 8, which already sum *)
(* to 10, so the rebalancing loop changes nothing.                         *)
C2_RoundHalfEven ==
    IsC2Input => al_out = [k \in {"A", "B"} |-> IF k = "A" THEN 2 ELSE 8]

C2_Witness == IsC2Input /\ al_out["A"] + al_out["B"] = 10

C4_TopKeysGetOne ==
    (al_pc = "allocated" /\ 0 < al_total /\ al_total < Len(al_keys)) =>
        /\ \A k \in Range(al_keys) : al_out[k] \in {0, 1}
        /\ Cardinality({k \in Range(al_keys) : al_out[k] = 1}) = al_total
        /\ \A i, j \in 1..Len(al_keys) :
              (al_out[al_keys[i]] = 1 /\ al_out[al_keys[j]] = 0) =>
                  \/ al_weights[al_keys[i]] > al_weights[al_keys[j]]
                  \/ (al_weights[al_keys[i]] = al_weights[al_keys[j]] /\ i < j)

(* total = 1 over three mediums of equal weight: the first one gets it *)
C4_Witness ==
    /\ al_pc = "allocated"
    /\ al_total = 1
    /\ al_keys = <<"A", "B", "C">>
    /\ al_weights = [k \in {"A", "B", "C"} |-> 1]
    /\ al_out = [k \in {"A", "B", "C"} |-> IF k = "A" THEN 1 ELSE 0]

(* C5: for a fixed total >= |keys| and fixed positive weights of the      *)
(* other keys, doubling one key's weight never decreases the count        *)
(* allocated to that key.                                                 *)
C5_DoublingNeverDecreases ==
    (al_pc = "doubled" /\ al_total >= Len(al_keys)) =>
        al_dout[al_dkey] >= al_out[al_dkey]

---------------------------------------------------------------------------
(* Claims about generate_items and the repair handlers, checked under Spec *)

RECURSIVE SumSeq(_)
SumSeq(s) == IF s = <<>> THEN 0 ELSE Head(s) + SumSeq(Tail(s))

Generating == pc \in {"category", "medium", "round", "finish"}

(* C6: for every medium processed by generate_items and every sequence   *)
(* of model responses, including responses with more candidates than     *)
(* requested, the number of items appended for that medium is at most    *)
(* the medium's target count given by the allocation.                    *)
C6_AtMostTarget ==
    Generating => SumSeq(round_log) <= med_target

(* C7: the item list built by generate_items holds only items whose full *)
(* sentence is non-empty after trimming, and no two of its items have    *)
(* the same sentence: a candidate is appended only if its trimmed        *)
(* sentence is not among the sentences accepted earlier in the run.      *)
NonEmptyDistinct(its) ==
    /\ \A i \in 1..Len(its) : Strip(its[i].full_sentence) # <<>>
    /\ \A i, j \in 1..Len(its) : i # j => its[i].full_sentence # its[j].full_sentence

C7_NonEmptyDistinctSentences ==
    /\ NonEmptyDistinct(final)
    /\ (pc = "done" /\ repairs = 0) => NonEmptyDistinct(items)

(* three accepted items in two categories, the last round of the second *)
(* category having been held to sentences not seen in the first          *)
C7_Witness ==
    /\ pc = "finish"
    /\ Len(final) = 3
    /\ final[1].category_large_key = "I"
    /\ final[3].category_large_key = "II"
    /\ Cardinality(seen_q) = 3

(* C8: generate_items never propagates an error for any outcome of the  *)
(* generative call: a failed call or a response of the wrong shape is   *)
(* treated as zero mediums or zero candidates and the run completes.    *)
C8_NeverRaises == pc # "raised"

(* C9: for each medium, generate_items makes at most 3 generative calls *)
(* and makes no further call for that medium after the first round in   *)
(* which zero candidates were accepted; a model that only repeats a     *)
(* seen sentence ends the medium's loop after one call with no item.    *)
C9_AtMostThreeRoundsStopOnZero ==
    /\ rounds <= 3
    /\ Len(round_log) <= 3
    /\ pc = "round" =>
          /\ rounds < 3
          /\ rounds = Len(round_log)
          /\ \A k \in 1..Len(round_log) : round_log[k] > 0
    /\ \A k \in 1..(Len(round_log) - 1) : round_log[k] > 0

(* a first round that accepted nothing although sentences had been seen: *)
(* the loop is left after one call and the medium stays short             *)
C9_Witness ==
    /\ pc = "medium"
    /\ seen_q # {}
    /\ rounds = 1
    /\ round_log = <<0>>
    /\ n_med = med_target
    /\ n_med > 0

(* C10: in every state reachable by a generation followed by any        *)
(* sequence of repair actions, every item of the item list has a weight *)
(* that is an integer in 1..5, whatever weights the model returned.     *)
C10_ItemWeightsInRange ==
    \A i \in 1..Len(items) : items[i].weight.t = "int" /\ items[i].weight.v \in 1..5

NoRepeat(s) == \A a, b \in 1..Len(s) : a # b => s[a] # s[b]

(* C12: in one duplicate-repair sweep (within-category or cross-category) *)
(* each item that is the second-index item of a flagged pair of that      *)
(* class is regenerated exactly once, also when the same index is the     *)
(* second index of several flagged pairs: the indices regenerated by a    *)
(* sweep, in the order of regeneration, hold no index twice.              *)
C12_EachTargetOnce ==
    sweep_kind # "" => NoRepeat(sweep_log)

(* C13: for every category that is allocated at least one item, the list  *)
(* of medium names passed to the allocator is non-empty, and the mediums'  *)
(* counts sum to the category's allocation: with no usable medium (failed  *)
(* call, empty list, entries without a non-empty name) the single          *)
(* synthetic medium is substituted and receives the whole allocation.      *)
C13_MediumNamesNonEmpty ==
    pc \in {"medium", "round"} =>
        /\ MediumNames(meds) # <<>>
        /\ DOMAIN med_alloc # {}
        /\ SumValues(med_alloc) = Need(alloc, major_keys(weights)[ci])

(* the items a step changes or drops *)
Changed == {i \in 1..Len(items) : i > Len(items') \/ items'[i] # items[i]}

(* the second index of the pair a sweep's step visits *)
SweepTarget ==
    IF pc = "sweep" THEN Head(sweep_queue).j
    ELSE Head(DupsOfType(duplicates_found, sweep_kind')).j

RepairFrame ==
    pc \in {"done", "sweep"} =>
        /\ Len(items') = Len(items)
        /\ Cardinality(Changed) <= 1
        /\ (sweep_log' # sweep_log => Changed \subseteq {SweepTarget + 1})

(* C18: every repair action (within-category sweep, cross-category sweep, *)
(* single-item rewrite) leaves the length of the item list unchanged and  *)
(* leaves every item at an index it does not target unchanged: a step of  *)
(* a repair changes at most one item, in place, and a step of a sweep     *)
(* changes only the item at the second index of the pair it visits.       *)
C18_RepairKeepsOtherItems == [][RepairFrame]_vars

(* a finished within-category sweep that rewrote its first target while   *)
(* another item still is as generated                                     *)
C18_Witness ==
    /\ pc = "done"
    /\ sweep_kind = "group"
    /\ sweep_log # <<>>
    /\ Len(items) >= 2
    /\ items[sweep_log[1] + 1].purpose = "p2"
    /\ \E i \in 1..Len(items) : items[i].purpose = "p"

(* C19: in every state reachable after a generation and any sequence of   *)
(* repair actions, every index recorded in the stored duplicate report is *)
(* a valid index into the stored item list, also when the generated list  *)
(* was truncated to the requested total.                                  *)
C19_ReportIndicesValid ==
    \A k \in 1..Len(duplicates_found) :
        /\ duplicates_found[k].i \in 0..(Len(items) - 1)
        /\ duplicates_found[k].j \in 0..(Len(items) - 1)

---------------------------------------------------------------------------
(* Claims about regenerate_specific_item, check_duplicates and            *)
(* normalize_weight, checked under SpecFun                                *)

Returned(name) == fn_pc = "output" /\ fn_call.name = name

RewrittenFields == {"purpose", "action", "result", "full_sentence", "weight"}

(* C11: when the generative call succeeds, regenerate_specific_item       *)
(* returns an item whose category key, category display name and medium   *)
(* name equal those of the input item, for every content of the response  *)
(* object; only purpose, action, result, full sentence and weight may     *)
(* differ.                                                                *)
C11_IdentityFieldsKept ==
    (Returned("regenerate_specific_item") /\ fn_call.resp.ok) =>
        \A f \in ItemFields \ RewrittenFields : fn_out[f] = fn_call.item[f]

(* C14: if the generative call fails in any way, regenerate_specific_item *)
(* returns an item equal field for field to its input item (and does not  *)
(* raise: the call returns).                                              *)
C14_FailureReturnsInput ==
    (Returned("regenerate_specific_item") /\ ~fn_call.resp.ok) =>
        /\ DOMAIN fn_out = DOMAIN fn_call.item
        /\ \A f \in ItemFields : fn_out[f] = fn_call.item[f]

(* a failed call whose text named every field of an item, with values    *)
(* that differ from the item's                                            *)
C14_Witness ==
    /\ Returned("regenerate_specific_item")
    /\ ~fn_call.resp.ok
    /\ fn_call.resp.has = ItemFields
    /\ fn_call.resp.val.category_large_key # fn_call.item.category_large_key
    /\ fn_out = fn_call.item

(* a sentence that is not empty after trimming holds a non-blank character *)
HasInk(s) == \E k \in 1..Len(s) : s[k] # " "

Sentence(its, i) == Strip(its[i + 1].full_sentence)

(* the pairs the detector has to report: i < j, both sentences non-empty  *)
(* after trimming, ratio 2M/T >= threshold                                *)
SimilarPairs(its, th) ==
    {p \in (0..(Len(its) - 1)) \X (0..(Len(its) - 1)) :
        /\ p[1] < p[2]
        /\ HasInk(its[p[1] + 1].full_sentence)
        /\ HasInk(its[p[2] + 1].full_sentence)
        /\ LET r == Ratio(Sentence(its, p[1]), Sentence(its, p[2]))
           IN  100 * r[1] >= th * r[2]}

Reported(out, p) == {k \in 1..Len(out) : out[k].i = p[1] /\ out[k].j = p[2]}

(* C15: check_duplicates(items, threshold) returns exactly one entry for  *)
(* each index pair i < j whose two sentences are both non-empty after     *)
(* trimming and whose similarity ratio is >= threshold, and no other      *)
(* entry; hence two identical non-empty sentences are flagged for every   *)
(* threshold <= 1.0 and two sentences sharing no character are never      *)
(* flagged for a threshold > 0.                                           *)
C15_ExactlyTheSimilarPairs ==
    Returned("check_duplicates") =>
        LET its == fn_call.items
            th  == fn_call.threshold
            n   == Len(its)
        IN  /\ \A p \in SimilarPairs(its, th) : Cardinality(Reported(fn_out, p)) = 1
            /\ \A k \in 1..Len(fn_out) : <<fn_out[k].i, fn_out[k].j>> \in SimilarPairs(its, th)
            /\ \A i, j \in 0..(n - 1) :
                  (i < j /\ th <= 100 /\ Sentence(its, i) # <<>>
                         /\ Sentence(its, i) = Sentence(its, j))
                      => Reported(fn_out, <<i, j>>) # {}
            /\ \A i, j \in 0..(n - 1) :
                  (i < j /\ th > 0
                         /\ Range(Sentence(its, i)) \cap Range(Sentence(its, j)) = {})
                      => Reported(fn_out, <<i, j>>) = {}

(* threshold 1.0 over "ab", "ab " and "cd": the first two are identical   *)
(* after trimming and are the one pair reported                           *)
C15_Witness ==
    /\ Returned("check_duplicates")
    /\ fn_call.threshold = 100
    /\ Len(fn_call.items) = 3
    /\ fn_call.items[1].full_sentence = <<"a", "b">>
    /\ fn_call.items[2].full_sentence = <<"a", "b", " ">>
    /\ fn_call.items[3].full_sentence = <<"c", "d">>
    /\ Len(fn_out) = 1
    /\ fn_out[1].i = 0
    /\ fn_out[1].j = 1

(* C16: every pair reported by check_duplicates is classified "group"     *)
(* exactly when its two items have the same top-level category key, and   *)
(* "global" exactly when the keys differ.                                 *)
C16_ClassifiedByCategoryKey ==
    Returned("check_duplicates") =>
        \A k \in 1..Len(fn_out) :
            LET same == fn_call.items[fn_out[k].i + 1].category_large_key
                           = fn_call.items[fn_out[k].j + 1].category_large_key
            IN  /\ fn_out[k].dup_type = "group" <=> same
                /\ fn_out[k].dup_type = "global" <=> ~same

(* a report that holds a pair of each class *)
C16_Witness ==
    /\ Returned("check_duplicates")
    /\ \E k \in 1..Len(fn_out) :
          /\ fn_out[k].dup_type = "group"
          /\ fn_call.items[fn_out[k].i + 1].category_large_key = "II"
    /\ \E k \in 1..Len(fn_out) : fn_out[k].dup_type = "global"

(* C17: normalize_weight(w, level) returns clamp(w, 1, 5) for every       *)
(* integer w (0 -> 1, -5 -> 1, 999 -> 5, 3 -> 3) and the level default    *)
(* (Lv1 -> 1, Lv2 -> 2, any other level -> 3) when w is missing or        *)
(* non-numeric; its result is always in 1..5.                             *)
C17_ClampOrLevelDefault ==
    Returned("normalize_weight") =>
        LET w  == fn_call.w
            lv == fn_call.level
        IN  /\ fn_out \in 1..5
            /\ (w.t = "int" /\ w.v < 1) => fn_out = 1
            /\ (w.t = "int" /\ w.v > 5) => fn_out = 5
            /\ (w.t = "int" /\ w.v \in 1..5) => fn_out = w.v
            /\ (w.t # "int" /\ lv = "Lv1") => fn_out = 1
            /\ (w.t # "int" /\ lv = "Lv2") => fn_out = 2
            /\ (w.t # "int" /\ lv \notin {"Lv1", "Lv2"}) => fn_out = 3

C17_Witness ==
    /\ Returned("normalize_weight")
    /\ fn_call.w = JInt(999)
    /\ fn_out = 5

====
